---- MODULE Spec2Model ----
(***************************************************************************)
(* Model of pyutils.processutils.execute (src/pyutils/processutils.py) and *)
(* of the StopWatch it uses (src/pyutils/timeutils.py).                    *)
(*                                                                         *)
(* One behaviour is one call of execute with keyword arguments.  The caller *)
(* thread walks through the body of execute; the threading.Timer thread    *)
(* armed by on_execute and the child processes run concurrently with it.   *)
(*                                                                         *)
(* Python values that may be None / absent are wrapped in a tuple:         *)
(* <<>> is None (or "key not in kwargs"), <<v>> is the value v.            *)
(***************************************************************************)
EXTENDS Integers, Sequences, FiniteSets, TLC

\* ---------------------------------------------------------------- bounds
MaxAttempts == 3

\* ------------------------------------------------------- input domains
None == <<>>

IsSet(x) == Len(x) > 0

\* Python truthiness of an optional number: None and 0 are falsy.
Truthy(x) == IF Len(x) = 0 THEN FALSE ELSE x[1] # 0

ExitCodes == {0, 1, 137}

\* A negative return code is what Popen reports for a child killed by a
\* signal (here: -15, killed by SIGTERM).
KilledCodes == {0 - 15}

BoolCec(b) == [t |-> "bool", b |-> b, n |-> 0, s |-> {}]

IntCec(n) == [t |-> "int", b |-> FALSE, n |-> n, s |-> {}]

ListCec(s) == [t |-> "list", b |-> FALSE, n |-> 0, s |-> s]

CecValues == {BoolCec(TRUE), BoolCec(FALSE), IntCec(1), ListCec({0, 1}), ListCec({})}

Opt(S) == {None} \cup {<<v>> : v \in S}

KwargsDomain ==
    [delay_on_retry  : Opt(BOOLEAN),
     interval        : Opt({0, 2}),
     backoff_rate    : Opt({3}),
     check_exit_code : Opt(CecValues),
     attempts        : Opt(0..MaxAttempts),
     timeout         : Opt({5}),
     bogus           : Opt({1})]

OptionNames ==
    {"delay_on_retry", "interval", "backoff_rate", "check_exit_code",
     "attempts", "timeout", "bogus"}

\* random.randint(20, 200): the two extremes stand for the whole range.
JitterChoices == {20, 200}

Attempts == 1..MaxAttempts

VARIABLES
    pc,               \* position of the caller thread inside execute
    kwargs,           \* the keyword arguments still in kwargs
    call,             \* the keyword arguments as passed (never changes)
    interval,         \* local of execute
    backoff_rate,     \* local of execute (<<>> = never bound)
    check_exit_code,  \* local of execute
    ignore_exit_code, \* local of execute
    delay_on_retry,   \* local of execute
    attempts,         \* local of execute: attempts remaining
    timeout,          \* local of execute
    shared_data,      \* shared_data[0], [1], [2]: attempt, timer, timed_out
    watch,            \* StopWatch._state: "None", "STARTED", "STOPPED"
    procs,            \* the child processes, by the iteration that spawned them
    timers,           \* the threading.Timer objects, by iteration
    obj,              \* the Popen object of the current iteration
    result,           \* local of execute: obj.communicate(...)
    returncode,       \* local of execute: _returncode
    err,              \* the exception in flight / raised to the caller
    retval,           \* the value returned to the caller
    iter,             \* history: loop iterations begun
    popens,           \* history: calls of subprocess.Popen
    sleeps,           \* history: the retry waits performed, in order
    yields,           \* history: calls of time.sleep(0)
    expired_late,     \* history: a timer went off after its process exited
    timer_args,       \* the args of each Timer: the process on_timeout gets
    r_pc,             \* retry: position of the caller of retry / of _wrapper
    r_cfg,            \* retry: exceptions, interval, retries, backoff_rate
    r_attempt,        \* retry: attempt_number of Retrying.call
    r_log,            \* retry: history, the outcome of every call of f
    r_sleeps,         \* retry: history, the waits made (milliseconds)
    r_err,            \* retry: the exception raised to the caller
    r_ret             \* retry: the value returned to the caller

vars == <<pc, kwargs, call, interval, backoff_rate, check_exit_code,
          ignore_exit_code, delay_on_retry, attempts, timeout, shared_data,
          watch, procs, timers, obj, result, returncode, err, retval,
          iter, popens, sleeps, yields, expired_late, timer_args,
          r_pc, r_cfg, r_attempt, r_log, r_sleeps, r_err, r_ret>>

rvars == <<r_pc, r_cfg, r_attempt, r_log, r_sleeps, r_err, r_ret>>

evars == <<pc, kwargs, call, interval, backoff_rate, check_exit_code,
           ignore_exit_code, delay_on_retry, attempts, timeout, shared_data,
           watch, procs, timers, obj, result, returncode, err, retval,
           iter, popens, sleeps, yields, expired_late, timer_args>>

locals == <<interval, backoff_rate, check_exit_code, ignore_exit_code,
            delay_on_retry, timeout>>

NoErr == [type |-> "none", exit_code |-> None, attempt |-> 0]

\* A child process: st is "none", "running" or "exited".  History kept with
\* it: signals counts the send_signal calls made on it, late those made
\* after it had exited, foreign those made by the timer of another
\* iteration, completions counts the calls of on_completion for it.
NoProc == [st |-> "none", code |-> None, signals |-> 0, late |-> 0,
           foreign |-> 0, completions |-> 0]

\* (stdout, stderr) captured from the process of iteration k
Output(k) == [stdout |-> k, stderr |-> k]

\* -------------------------------------------------------------- Init
\* retry is not in use
RetryIdle ==
    /\ r_pc = "idle"
    /\ r_cfg = [exceptions |-> {}, interval |-> 0, retries |-> 0,
                backoff_rate |-> 0]
    /\ r_attempt = 0
    /\ r_log = <<>>
    /\ r_sleeps = <<>>
    /\ r_err = None
    /\ r_ret = None

Init ==
    /\ kwargs \in KwargsDomain
    /\ call = kwargs
    /\ pc = "setup"
    /\ interval = None
    /\ backoff_rate = None
    /\ check_exit_code = {}
    /\ ignore_exit_code = FALSE
    /\ delay_on_retry = FALSE
    /\ attempts = 0
    /\ timeout = None
    /\ shared_data = [attempt |-> 0, timer |-> None, timed_out |-> None]
    /\ watch = "None"
    /\ procs = [k \in Attempts |-> NoProc]
    /\ timers = [k \in Attempts |-> "none"]
    /\ obj = None
    /\ result = None
    /\ returncode = None
    /\ err = NoErr
    /\ retval = None
    /\ iter = 0
    /\ popens = 0
    /\ sleeps = <<>>
    /\ yields = 0
    /\ expired_late = FALSE
    /\ timer_args = [k \in Attempts |-> None]
    /\ RetryIdle

\* ------------------------------------------------- helpers of execute
DefaultInterval == 1

DefaultBackoffRate == 2

DefaultAttempts == 1

\* kwargs.pop(key, default) on a key whose entry is v
Pop(v, default) == IF IsSet(v) THEN v[1] ELSE default

\* "if kwargs:" -- some keyword argument was not consumed
Leftover(kw) == \E o \in OptionNames : IsSet(kw[o])

\* mutant: the "not" of line 167 is lost
NormalizeCheckExitCodeNoNot(c) ==
    IF c.t = "bool" THEN [ignore |-> c.b, codes |-> {0}]
    ELSE IF c.t = "int" THEN [ignore |-> FALSE, codes |-> {c.n}]
    ELSE [ignore |-> FALSE, codes |-> c.s]

\* lines 166-170: [ignore_exit_code, check_exit_code] after normalisation
NormalizeCheckExitCode(c) ==
    IF c.t = "bool" THEN [ignore |-> ~c.b, codes |-> {0}]
    ELSE IF c.t = "int" THEN [ignore |-> FALSE, codes |-> {c.n}]
    ELSE [ignore |-> FALSE, codes |-> c.s]

\* line 211, negated: the attempt satisfies the exit-code policy
ExitCodeOk(ignore, codes, rc) == ignore \/ rc \in codes

\* mutant: the except clause forgets OSError
CaughtWithoutOSError(type) == type \in {"ProcessExecutionError"}

\* line 218: "except (ProcessExecutionError, OSError)"
Caught(type) == type \in {"ProcessExecutionError", "OSError"}

\* mutant: the last attempt is recognised one attempt too early
NoAttemptsLeftOffByOne(att) == att <= 1

\* line 235: "if not attempts"
NoAttemptsLeft(att) == att = 0

\* line 178: "while attempts > 0"
LoopCondition(att) == att > 0

RECURSIVE Pow(_, _)
Pow(b, e) == IF e = 0 THEN 1 ELSE b * Pow(b, e - 1)

Max(a, b) == IF a >= b THEN a ELSE b

\* mutant: the test for the first try is lost
SleepsInOnExecuteAlways(previous, ivl) == Truthy(ivl)

\* line 124: on_execute sleeps iff this is not the first try and interval
SleepsInOnExecute(previous, ivl) == previous # 0 /\ Truthy(ivl)

\* mutant: the exponent counts from 0 at the second attempt
BackoffWaitFromZero(ivl, rate, previous) ==
    Max(0, ivl * Pow(rate, previous - 1))

\* lines 125-126: seconds slept by on_execute
BackoffWait(ivl, rate, previous) == Max(0, ivl * Pow(rate, previous))

\* line 240: the jitter sleep of the except clause is taken
SleepsInExcept(delay) == delay

\* mutant: sig_end is bound (to a signal number), on_timeout signals
SigEndBoundToSignal == TRUE

\* on_timeout reads the name sig_end, which execute never binds (and which
\* is no module global or builtin): evaluating it raises NameError.
SigEndBound == FALSE

\* ------------------------------------------------- StopWatch (timeutils)
Stop(s) ==
    IF s = "STOPPED" THEN s
    ELSE IF s # "STARTED" THEN "RuntimeError"
    ELSE "STOPPED"

Start(s) == IF s = "STARTED" THEN s ELSE "STARTED"

\* mutant: restart stops a started watch and does not start it again
RestartOnlyStops(s) == IF s = "STARTED" THEN Stop(s) ELSE s

Restart(s) == Start(IF s = "STARTED" THEN Stop(s) ELSE s)

ElapsedRaises(s) == s \notin {"STARTED", "STOPPED"}

\* ------------------------------------------------------------ execute
\* mutant: interval and backoff_rate are popped on both branches
WaitOptionsPopsAlways(kw) ==
    IF IsSet(kw.delay_on_retry)
    THEN [kw |-> [kw EXCEPT !.interval = None, !.backoff_rate = None],
          interval |-> None, backoff_rate |-> None]
    ELSE [kw |-> [kw EXCEPT !.delay_on_retry = <<FALSE>>,
                            !.interval = None,
                            !.backoff_rate = None],
          interval |-> <<Pop(kw.interval, DefaultInterval)>>,
          backoff_rate |-> <<Pop(kw.backoff_rate, DefaultBackoffRate)>>]

\* mutant: line 149 is lost, delay_on_retry keeps its default True
WaitOptionsKeepsDelay(kw) ==
    IF IsSet(kw.delay_on_retry)
    THEN [kw |-> kw, interval |-> None, backoff_rate |-> None]
    ELSE [kw |-> [kw EXCEPT !.interval = None, !.backoff_rate = None],
          interval |-> <<Pop(kw.interval, DefaultInterval)>>,
          backoff_rate |-> <<Pop(kw.backoff_rate, DefaultBackoffRate)>>]

\* lines 146-151: the wait options.  Gives the kwargs left, interval and
\* backoff_rate (<<>> = never bound).
WaitOptions(kw) ==
    IF IsSet(kw.delay_on_retry)
    THEN [kw |-> kw, interval |-> None, backoff_rate |-> None]
    ELSE [kw |-> [kw EXCEPT !.delay_on_retry = <<FALSE>>,
                            !.interval = None,
                            !.backoff_rate = None],
          interval |-> <<Pop(kw.interval, DefaultInterval)>>,
          backoff_rate |-> <<Pop(kw.backoff_rate, DefaultBackoffRate)>>]

\* lines 153-163: the other options are popped
PopOptions(kw) ==
    [kw EXCEPT !.check_exit_code = None,
               !.delay_on_retry = None,
               !.attempts = None,
               !.timeout = None]

\* lines 146-175: read the keyword arguments, reject unknown ones
Setup ==
    /\ pc = "setup"
    /\ LET w == WaitOptions(kwargs)
           cec == NormalizeCheckExitCode(
                      Pop(w.kw.check_exit_code, ListCec({0})))
       IN /\ interval' = w.interval
          /\ backoff_rate' = w.backoff_rate
          /\ check_exit_code' = cec.codes
          /\ ignore_exit_code' = cec.ignore
          /\ delay_on_retry' = Pop(w.kw.delay_on_retry, TRUE)
          /\ attempts' = Pop(w.kw.attempts, DefaultAttempts)
          /\ timeout' = w.kw.timeout
          /\ kwargs' = PopOptions(w.kw)
          /\ IF Leftover(PopOptions(w.kw))
             THEN /\ pc' = "raised"
                  /\ err' = [type |-> "UnknownArgumentError",
                             exit_code |-> None, attempt |-> 0]
             ELSE /\ pc' = "loop"
                  /\ err' = err
    /\ UNCHANGED <<rvars, expired_late, timer_args>>
    /\ UNCHANGED <<call, shared_data, watch, procs, timers, obj, result,
                   returncode, retval, iter, popens, sleeps, yields>>

\* lines 178-180: the loop is entered
LoopEnter ==
    /\ pc = "loop"
    /\ LoopCondition(attempts)
    /\ attempts' = attempts - 1
    /\ watch' = Restart(watch)
    /\ iter' = iter + 1
    /\ pc' = "popen"
    /\ UNCHANGED <<rvars, expired_late, timer_args>>
    /\ UNCHANGED <<kwargs, call, locals, shared_data, procs, timers, obj,
                   result, returncode, err, retval, popens, sleeps, yields>>

\* line 178: the loop condition is false; execute falls off its end and
\* returns None
LoopExit ==
    /\ pc = "loop"
    /\ ~LoopCondition(attempts)
    /\ retval' = None
    /\ pc' = "returned"
    /\ UNCHANGED <<rvars, expired_late, timer_args>>
    /\ UNCHANGED <<kwargs, call, locals, attempts, shared_data, watch, procs,
                   timers, obj, result, returncode, err, iter, popens,
                   sleeps, yields>>

\* lines 190-198: subprocess.Popen creates the child
PopenOk ==
    /\ pc = "popen"
    /\ popens' = popens + 1
    /\ procs' = [procs EXCEPT ![iter] = [NoProc EXCEPT !.st = "running"]]
    /\ obj' = <<iter>>
    /\ pc' = "on_execute"
    /\ UNCHANGED <<rvars, expired_late, timer_args>>
    /\ UNCHANGED <<kwargs, call, locals, attempts, shared_data, watch, timers,
                   result, returncode, err, retval, iter, sleeps, yields>>

\* lines 190-198: subprocess.Popen raises OSError; the except clause of
\* line 218 takes it, otherwise it would leave through the finally of
\* line 250
PopenFails ==
    /\ pc = "popen"
    /\ popens' = popens + 1
    /\ err' = [type |-> "OSError", exit_code |-> None, attempt |-> iter]
    /\ IF Caught("OSError")
       THEN pc' = "except" /\ yields' = yields
       ELSE pc' = "raised" /\ yields' = yields + 1
    /\ UNCHANGED <<rvars, expired_late, timer_args>>
    /\ UNCHANGED <<kwargs, call, locals, attempts, shared_data, watch, procs,
                   timers, obj, result, returncode, retval, iter, sleeps>>

\* mutant: the timer is given the process of the iteration before
TimerArgsStale(proc) == IF proc > 1 THEN proc - 1 ELSE proc

\* line 133: the args of the Timer are (proc,), the argument of on_execute
TimerArgs(proc) == proc

\* lines 119-134 (called at line 200)
OnExecute ==
    /\ pc = "on_execute"
    /\ sleeps' =
         IF SleepsInOnExecute(shared_data.attempt, interval)
         THEN Append(sleeps,
                [kind |-> "backoff",
                 secs100 |-> 100 * BackoffWait(interval[1], backoff_rate[1],
                                               shared_data.attempt),
                 iter |-> iter,
                 spawned |-> procs[iter].st # "none"])
         ELSE sleeps
    /\ shared_data' =
         IF Truthy(timeout)
         THEN [attempt |-> shared_data.attempt + 1, timer |-> <<iter>>,
               timed_out |-> None]
         ELSE [shared_data EXCEPT !.attempt = @ + 1]
    /\ timers' = IF Truthy(timeout) THEN [timers EXCEPT ![iter] = "armed"]
                 ELSE timers
    /\ timer_args' = IF Truthy(timeout)
                     THEN [timer_args EXCEPT ![iter] = <<TimerArgs(obj[1])>>]
                     ELSE timer_args
    /\ pc' = "communicate"
    /\ UNCHANGED <<rvars, expired_late>>
    /\ UNCHANGED <<kwargs, call, locals, attempts, watch, procs, obj, result,
                   returncode, err, retval, iter, popens, yields>>

\* lines 203-207: communicate returns once the child has exited
Communicate ==
    /\ pc = "communicate"
    /\ procs[obj[1]].st = "exited"
    /\ result' = <<Output(obj[1])>>
    /\ returncode' = procs[obj[1]].code
    /\ err' = IF ElapsedRaises(watch)
              THEN [type |-> "RuntimeError", exit_code |-> None,
                    attempt |-> iter]
              ELSE err
    /\ pc' = "on_completion"
    /\ UNCHANGED <<rvars, expired_late, timer_args>>
    /\ UNCHANGED <<kwargs, call, locals, attempts, shared_data, watch, procs,
                   timers, obj, retval, iter, popens, sleeps, yields>>

\* mutant: on_completion leaves the timer as it is
CancelLeavesTimer(t) == t

\* threading.Timer.cancel(): a timer still waiting never runs its function
Cancel(t) == IF t = "armed" THEN "cancelled" ELSE t

\* lines 136-143 (the finally of line 208)
OnCompletion ==
    /\ pc = "on_completion"
    /\ timers' = IF IsSet(shared_data.timer)
                 THEN [timers EXCEPT ![shared_data.timer[1]] = Cancel(@)]
                 ELSE timers
    /\ IF err.type = "RuntimeError"
       THEN pc' = "raised" /\ yields' = yields + 1
       ELSE pc' = "check" /\ yields' = yields
    /\ procs' = [procs EXCEPT ![obj[1]].completions = @ + 1]
    /\ UNCHANGED <<rvars, expired_late, timer_args>>
    /\ UNCHANGED <<kwargs, call, locals, attempts, shared_data, watch, obj,
                   result, returncode, err, retval, iter, popens, sleeps>>

\* lines 211-216: the exit code violates the policy
CheckFails ==
    /\ pc = "check"
    /\ ~ExitCodeOk(ignore_exit_code, check_exit_code, returncode[1])
    /\ err' = [type |-> "ProcessExecutionError", exit_code |-> returncode,
               attempt |-> iter]
    /\ IF Caught("ProcessExecutionError")
       THEN pc' = "except" /\ yields' = yields
       ELSE pc' = "raised" /\ yields' = yields + 1
    /\ UNCHANGED <<rvars, expired_late, timer_args>>
    /\ UNCHANGED <<kwargs, call, locals, attempts, shared_data, watch, procs,
                   timers, obj, result, returncode, retval, iter, popens,
                   sleeps>>

\* mutant: the success path does not return, the loop goes on
CheckPassesNoReturn ==
    /\ pc = "check"
    /\ ExitCodeOk(ignore_exit_code, check_exit_code, returncode[1])
    /\ yields' = yields + 1
    /\ pc' = "loop"
    /\ UNCHANGED <<rvars, expired_late, timer_args>>
    /\ UNCHANGED <<kwargs, call, locals, attempts, shared_data, watch, procs,
                   timers, obj, result, returncode, err, retval, iter, popens,
                   sleeps>>

\* line 217, then the finally of line 250
CheckPasses ==
    /\ pc = "check"
    /\ ExitCodeOk(ignore_exit_code, check_exit_code, returncode[1])
    /\ retval' = result
    /\ yields' = yields + 1
    /\ pc' = "returned"
    /\ UNCHANGED <<rvars, expired_late, timer_args>>
    /\ UNCHANGED <<kwargs, call, locals, attempts, shared_data, watch, procs,
                   timers, obj, result, returncode, err, iter, popens, sleeps>>

\* lines 218-237, then the finally of line 250: the last attempt failed
ExceptRaise ==
    /\ pc = "except"
    /\ NoAttemptsLeft(attempts)
    /\ yields' = yields + 1
    /\ pc' = "raised"
    /\ UNCHANGED <<rvars, expired_late, timer_args>>
    /\ UNCHANGED <<kwargs, call, locals, attempts, shared_data, watch, procs,
                   timers, obj, result, returncode, err, retval, iter, popens,
                   sleeps>>

\* lines 218-241, then the finally of line 250: another attempt follows
ExceptRetry ==
    /\ pc = "except"
    /\ ~NoAttemptsLeft(attempts)
    /\ \E j \in JitterChoices :
         sleeps' = IF SleepsInExcept(delay_on_retry)
                   THEN Append(sleeps, [kind |-> "jitter", secs100 |-> j,
                                        iter |-> iter, spawned |-> FALSE])
                   ELSE sleeps
    /\ err' = NoErr
    /\ yields' = yields + 1
    /\ pc' = "loop"
    /\ UNCHANGED <<rvars, expired_late, timer_args>>
    /\ UNCHANGED <<kwargs, call, locals, attempts, shared_data, watch, procs,
                   timers, obj, result, returncode, retval, iter, popens>>

\* ---------------------------------------------------- the timer thread
\* threading.Timer.run: the wait of `timeout` seconds ended and cancel()
\* has not been called, so the function is about to be called
TimerExpire(k) ==
    /\ timers[k] = "armed"
    /\ timers' = [timers EXCEPT ![k] = "firing"]
    /\ expired_late' = (expired_late \/ procs[k].st = "exited")
    /\ UNCHANGED <<rvars, timer_args>>
    /\ UNCHANGED <<pc, kwargs, call, locals, attempts, shared_data, watch,
                   procs, obj, result, returncode, err, retval, iter, popens,
                   sleeps, yields>>

\* lines 113-117: on_timeout(proc), run by the timer of iteration k with
\* the proc of its args
OnTimeout(k) ==
    /\ timers[k] = "firing"
    /\ IF SigEndBound
       THEN /\ timers' = [timers EXCEPT ![k] = "fired"]
            /\ shared_data' =
                 [shared_data EXCEPT !.timed_out = timer_args[k]]
            /\ procs' = [procs EXCEPT
                           ![timer_args[k][1]] =
                               [@ EXCEPT
                                  !.signals = @ + 1,
                                  !.late = IF procs[timer_args[k][1]].st
                                                = "exited"
                                           THEN @ + 1 ELSE @,
                                  !.foreign = IF timer_args[k][1] # k
                                              THEN @ + 1 ELSE @]]
       ELSE /\ timers' = [timers EXCEPT ![k] = "NameError"]
            /\ UNCHANGED <<shared_data, procs>>
    /\ UNCHANGED <<rvars, expired_late, timer_args>>
    /\ UNCHANGED <<pc, kwargs, call, locals, attempts, watch, obj, result,
                   returncode, err, retval, iter, popens, sleeps, yields>>

\* ------------------------------------------------------ the child process
\* The child of iteration k exits: with its own exit code, or killed by
\* the signal it received.
ProcExit(k) ==
    /\ procs[k].st = "running"
    /\ \E c \in (IF procs[k].signals > 0 THEN KilledCodes ELSE ExitCodes) :
         procs' = [procs EXCEPT ![k].st = "exited", ![k].code = <<c>>]
    /\ UNCHANGED <<rvars, expired_late, timer_args>>
    /\ UNCHANGED <<pc, kwargs, call, locals, attempts, shared_data, watch,
                   timers, obj, result, returncode, err, retval, iter, popens,
                   sleeps, yields>>

Next ==
    \/ Setup
    \/ LoopEnter
    \/ LoopExit
    \/ PopenOk
    \/ PopenFails
    \/ OnExecute
    \/ Communicate
    \/ OnCompletion
    \/ CheckFails
    \/ CheckPasses
    \/ ExceptRaise
    \/ ExceptRetry
    \/ \E k \in Attempts : TimerExpire(k)
    \/ \E k \in Attempts : OnTimeout(k)
    \/ \E k \in Attempts : ProcExit(k)

Spec == Init /\ [][Next]_vars

\* ================================================================ retry
\* One behaviour of SpecRetry is one use of retry(exceptions, interval,
\* retries, backoff_rate): the decoration of a function f, then one call of
\* the wrapped function.  retrying.Retrying.call(f) is modelled by what the
\* library does with the three callbacks retry passes to it
\* (retry_on_exception, wait_func, stop_func; wrap_exception is left False).
MaxRetries == 3

\* the exception classes f may raise
ErrorKinds == {"IOError", "KeyError"}

RetryConfigs ==
    [exceptions   : {{"IOError"}, {"IOError", "KeyError"}},
     interval     : {0, 1, 2},
     retries      : 0..MaxRetries,
     backoff_rate : {0, 1, 2, 3}]

\* execute is not in use
ExecuteIdle ==
    /\ kwargs = [o \in OptionNames |-> None]
    /\ call = kwargs
    /\ pc = "idle"
    /\ interval = None
    /\ backoff_rate = None
    /\ check_exit_code = {}
    /\ ignore_exit_code = FALSE
    /\ delay_on_retry = FALSE
    /\ attempts = 0
    /\ timeout = None
    /\ shared_data = [attempt |-> 0, timer |-> None, timed_out |-> None]
    /\ watch = "None"
    /\ procs = [k \in Attempts |-> NoProc]
    /\ timers = [k \in Attempts |-> "none"]
    /\ obj = None
    /\ result = None
    /\ returncode = None
    /\ err = NoErr
    /\ retval = None
    /\ iter = 0
    /\ popens = 0
    /\ sleeps = <<>>
    /\ yields = 0
    /\ expired_late = FALSE
    /\ timer_args = [k \in Attempts |-> None]

InitRetry ==
    /\ ExecuteIdle
    /\ r_cfg \in RetryConfigs
    /\ r_pc = "decorate"
    /\ r_attempt = 0
    /\ r_log = <<>>
    /\ r_sleeps = <<>>
    /\ r_err = None
    /\ r_ret = None

\* line 271: the message of the ValueError is built with the name _, which
\* the module neither defines nor imports: evaluating it raises NameError.
UnderscoreBound == FALSE

\* mutant: every exception is retried on
RetryOnExceptionAny(kind, exceptions) == TRUE

\* lines 254-255: _retry_on_exception
RetryOnException(kind, exceptions) == kind \in exceptions

\* mutant: the rate is subtracted from instead of raised to a power
BackoffSleepLinearDecay(ivl, rate, previous_attempt_number) ==
    Max(0, ivl * (rate + MaxRetries - previous_attempt_number)) * 1000

\* mutant: the wait is returned in seconds, not in milliseconds
BackoffSleepInSeconds(ivl, rate, previous_attempt_number) ==
    Max(0, ivl * Pow(rate, previous_attempt_number))

\* lines 257-261: _backoff_sleep, in milliseconds
BackoffSleep(ivl, rate, previous_attempt_number) ==
    Max(0, ivl * Pow(rate, previous_attempt_number)) * 1000

\* mutant: the stop is taken one attempt too early
PrintStopEarly(previous_attempt_number, retries) ==
    previous_attempt_number >= retries - 1

\* lines 263-268: _print_stop
PrintStop(previous_attempt_number, retries) ==
    previous_attempt_number = retries

\* line 270: "if retries < 1"
RetriesInvalid(retries) == retries < 1

\* lines 270-272: retry(...) raises instead of returning the decorator
RetryRejects ==
    /\ r_pc = "decorate"
    /\ RetriesInvalid(r_cfg.retries)
    /\ r_err' = <<[kind |-> IF UnderscoreBound THEN "ValueError"
                            ELSE "NameError",
                   call |-> 0]>>
    /\ r_pc' = "raised"
    /\ UNCHANGED <<r_cfg, r_attempt, r_log, r_sleeps, r_ret>>
    /\ UNCHANGED evars

\* lines 274-284: retry(...) returns _decorator, which wraps f
RetryDecorates ==
    /\ r_pc = "decorate"
    /\ ~RetriesInvalid(r_cfg.retries)
    /\ r_pc' = "decorated"
    /\ UNCHANGED <<r_cfg, r_attempt, r_log, r_sleeps, r_err, r_ret>>
    /\ UNCHANGED evars

\* lines 276-280: _wrapper is called; Retrying.call starts with
\* attempt_number = 1
WrapperCalled ==
    /\ r_pc = "decorated"
    /\ r_attempt' = 1
    /\ r_pc' = "invoke"
    /\ UNCHANGED <<r_cfg, r_log, r_sleeps, r_err, r_ret>>
    /\ UNCHANGED evars

\* Retrying.call: f(*args, **kwargs) returns a value
WorkReturns ==
    /\ r_pc = "invoke"
    /\ r_log' = Append(r_log, [exc |-> None, call |-> Len(r_log) + 1])
    /\ r_pc' = "judge"
    /\ UNCHANGED <<r_cfg, r_attempt, r_sleeps, r_err, r_ret>>
    /\ UNCHANGED evars

\* Retrying.call: f(*args, **kwargs) raises an exception
WorkRaises ==
    /\ r_pc = "invoke"
    /\ \E kind \in ErrorKinds :
         r_log' = Append(r_log, [exc |-> <<kind>>, call |-> Len(r_log) + 1])
    /\ r_pc' = "judge"
    /\ UNCHANGED <<r_cfg, r_attempt, r_sleeps, r_err, r_ret>>
    /\ UNCHANGED evars

LastAttempt == r_log[Len(r_log)]

\* Retrying.should_reject: only an exception accepted by
\* retry_on_exception makes the attempt a rejected one
ShouldReject(attempt, exceptions) ==
    IsSet(attempt.exc) /\ RetryOnException(attempt.exc[1], exceptions)

\* Retrying.call: the attempt is not rejected; its value is returned
AttemptReturned ==
    /\ r_pc = "judge"
    /\ ~ShouldReject(LastAttempt, r_cfg.exceptions)
    /\ ~IsSet(LastAttempt.exc)
    /\ r_ret' = <<LastAttempt.call>>
    /\ r_pc' = "returned"
    /\ UNCHANGED <<r_cfg, r_attempt, r_log, r_sleeps, r_err>>
    /\ UNCHANGED evars

\* Retrying.call: the attempt is not rejected; its exception is re-raised
AttemptPropagates ==
    /\ r_pc = "judge"
    /\ ~ShouldReject(LastAttempt, r_cfg.exceptions)
    /\ IsSet(LastAttempt.exc)
    /\ r_err' = <<[kind |-> LastAttempt.exc[1], call |-> LastAttempt.call]>>
    /\ r_pc' = "raised"
    /\ UNCHANGED <<r_cfg, r_attempt, r_log, r_sleeps, r_ret>>
    /\ UNCHANGED evars

\* Retrying.call: the attempt is rejected and stop_func says stop; the
\* exception of the attempt is raised (wrap_exception is False)
AttemptStops ==
    /\ r_pc = "judge"
    /\ ShouldReject(LastAttempt, r_cfg.exceptions)
    /\ PrintStop(r_attempt, r_cfg.retries)
    /\ r_err' = <<[kind |-> LastAttempt.exc[1], call |-> LastAttempt.call]>>
    /\ r_pc' = "raised"
    /\ UNCHANGED <<r_cfg, r_attempt, r_log, r_sleeps, r_ret>>
    /\ UNCHANGED evars

\* Retrying.call: the attempt is rejected and stop_func says go on; sleep
\* wait_func(...) milliseconds, then attempt_number += 1
AttemptRetries ==
    /\ r_pc = "judge"
    /\ ShouldReject(LastAttempt, r_cfg.exceptions)
    /\ ~PrintStop(r_attempt, r_cfg.retries)
    /\ r_sleeps' = Append(r_sleeps,
                          BackoffSleep(r_cfg.interval, r_cfg.backoff_rate,
                                       r_attempt))
    /\ r_attempt' = r_attempt + 1
    /\ r_pc' = "invoke"
    /\ UNCHANGED <<r_cfg, r_log, r_err, r_ret>>
    /\ UNCHANGED evars

NextRetry ==
    \/ RetryRejects
    \/ RetryDecorates
    \/ WrapperCalled
    \/ WorkReturns
    \/ WorkRaises
    \/ AttemptReturned
    \/ AttemptPropagates
    \/ AttemptStops
    \/ AttemptRetries

SpecRetry == InitRetry /\ [][NextRetry]_vars

\* ================================================================ claims
\* What the caller asked for, read from the keyword arguments as passed.
Requested == Pop(call.attempts, 1)

Terminated == pc \in {"returned", "raised"}

\* The exit-code policy as documented: False accepts every code, True
\* accepts 0, an integer accepts itself, a collection accepts its members;
\* the default is [0].
PolicyAccepts(rc) ==
    LET c == Pop(call.check_exit_code, ListCec({0}))
    IN IF c.t = "bool" THEN (~c.b \/ rc = 0)
       ELSE IF c.t = "int" THEN rc = c.n
       ELSE rc \in c.s

\* A retry wait is configured: the interval/backoff wait with a non-zero
\* interval, or delay_on_retry=True.
WaitConfigured ==
    IF IsSet(call.delay_on_retry) THEN call.delay_on_retry[1]
    ELSE Pop(call.interval, 1) # 0

Exited(k) == procs[k].st = "exited"

\* Every attempt so far spawned, and all exited with one non-accepted code.
AllFailedSame ==
    /\ iter >= 1
    /\ \A k \in 1..iter :
         /\ Exited(k)
         /\ procs[k].code = procs[1].code
         /\ ~PolicyAccepts(procs[k].code[1])

FirstAccepted(k) ==
    /\ k <= iter
    /\ Exited(k)
    /\ PolicyAccepts(procs[k].code[1])
    /\ \A j \in 1..(k - 1) : ~(Exited(j) /\ PolicyAccepts(procs[j].code[1]))

\* C2: once the k-th attempt is the first to satisfy the exit-code policy,
\* no later attempt is ever started: the loop is still in its k-th
\* iteration, Popen has been called k times, no wait beyond those between
\* the first k attempts was made, and the call can only end by returning
\* the output captured by that k-th attempt.
C2_ReturnsAtFirstSuccess ==
    \A k \in Attempts :
        FirstAccepted(k) =>
            /\ iter = k
            /\ popens = k
            /\ Len(sleeps) <= k - 1
            /\ \A j \in Attempts : j > k => procs[j].st = "none"
            /\ (Terminated => pc = "returned" /\ retval = <<Output(k)>>)

C2_Witness ==
    /\ pc = "returned"
    /\ FirstAccepted(2)
    /\ attempts >= 1
    /\ retval = <<Output(2)>>

\* on_timeout has run to its end (normally or not) for the timer of k
TimerRan(k) == timers[k] \in {"fired", "NameError"}

\* C3: a process still running when its watchdog has gone off has been sent
\* the termination signal, and an attempt whose process was killed by it
\* (with an exit code the policy does not accept) is not the one execute
\* returns from: it is handled as a failure.
C3_TimeoutSignalsProcess ==
    \A k \in Attempts :
        /\ (TimerRan(k) /\ procs[k].st = "running") => procs[k].signals >= 1
        /\ (/\ Exited(k)
            /\ procs[k].code[1] \in KilledCodes
            /\ ~PolicyAccepts(procs[k].code[1])) =>
               ~(pc = "returned" /\ iter = k)

\* The cleanup of attempt k (on_completion) is over.
CleanedUp(k) ==
    \/ k < iter
    \/ k = iter /\ pc \in {"check", "except", "loop", "returned", "raised"}

\* C4: an armed watchdog ends in exactly one of two ways: cancelled before
\* firing with no signal sent, or fired with the signal sent; and once the
\* cleanup of its attempt is over it is no longer pending.
C4_ExactlyOneTerminalAction ==
    \A k \in Attempts :
        /\ timers[k] \notin {"none", "armed", "firing"} =>
               \/ timers[k] = "cancelled" /\ procs[k].signals = 0
               \/ timers[k] = "fired" /\ procs[k].signals >= 1
        /\ (CleanedUp(k) /\ timers[k] # "none") => timers[k] # "armed"

\* C5: a call with attempts < 1 ends with an exception and without any
\* spawn; it never returns.
C5_RejectsAttemptsBelowOne ==
    (Requested < 1 /\ Terminated) => pc = "raised" /\ popens = 0

\* C6: a call ends either by returning the output of an attempt that
\* satisfied the policy or by raising one exception: a configuration error,
\* or the failure of the last (attempts-th) attempt.
C6_ResultOrLastFailure ==
    Terminated =>
        \/ /\ pc = "returned"
           /\ \E k \in Attempts :
                /\ retval = <<Output(k)>>
                /\ Exited(k)
                /\ PolicyAccepts(procs[k].code[1])
        \/ /\ pc = "raised"
           /\ \/ err.type = "UnknownArgumentError"
              \/ err.type \in {"ProcessExecutionError", "OSError"}
                 /\ err.attempt = Requested

\* C7: a spawn error uses up one attempt like an exit-code violation does:
\* every iteration, however it fails, takes one of the requested attempts;
\* the except clause goes back to the loop (which then spawns again) while
\* attempts remain and otherwise re-raises the exception it caught; an
\* OSError that reaches the caller is the unchanged OSError of the last
\* attempt.
C7_SpawnErrorConsumesAttempt ==
    /\ [](pc # "setup" => attempts + iter = Requested)
    /\ []((pc = "loop" /\ iter >= 1) => attempts >= 1)
    /\ []((pc = "raised" /\ err.type = "OSError") =>
             /\ err.attempt = Requested
             /\ iter = Requested
             /\ procs[iter].st = "none")
    /\ [][(pc = "except" /\ pc' # pc) =>
             IF attempts = 0
             THEN pc' = "raised" /\ err' = err
             ELSE pc' = "loop" /\ attempts' = attempts /\ popens' = popens]_vars

C7_Witness ==
    /\ pc = "raised"
    /\ err.type = "OSError"
    /\ Requested = 2
    /\ popens = 2
    /\ procs[1].st = "none"

\* C8: an attempt is evaluated as success exactly when the documented policy
\* accepts the exit code of its process: a returned call returns, unchanged,
\* the output of a process whose code is accepted, and a
\* ProcessExecutionError carries a code that is not accepted.
C8_ExitCodePolicy ==
    /\ (pc = "returned" /\ IsSet(retval)) =>
           /\ returncode = procs[iter].code
           /\ PolicyAccepts(returncode[1])
           /\ retval = <<Output(iter)>>
    /\ (pc \in {"except", "raised"} /\ err.type = "ProcessExecutionError") =>
           /\ err.exit_code = procs[err.attempt].code
           /\ ~PolicyAccepts(err.exit_code[1])

C8_Witness ==
    /\ pc = "returned"
    /\ call.check_exit_code = <<BoolCec(FALSE)>>
    /\ returncode = <<137>>
    /\ retval = <<Output(1)>>

\* The call carries an option name execute does not recognise.
UnknownOptionPassed ==
    \/ IsSet(call.bogus)
    \/ /\ IsSet(call.delay_on_retry)
       /\ IsSet(call.interval) \/ IsSet(call.backoff_rate)

\* C9: a call with an unrecognised option (interval or backoff_rate next to
\* delay_on_retry included) raises UnknownArgumentError with no process,
\* timer or sleep started.
C9_UnknownArgumentRejected ==
    (UnknownOptionPassed /\ pc # "setup") =>
        /\ pc = "raised"
        /\ err.type = "UnknownArgumentError"
        /\ popens = 0
        /\ iter = 0
        /\ sleeps = <<>>
        /\ \A k \in Attempts : procs[k].st = "none" /\ timers[k] = "none"

C9_Witness ==
    /\ pc = "raised"
    /\ err.type = "UnknownArgumentError"
    /\ ~IsSet(call.bogus)
    /\ IsSet(call.delay_on_retry)
    /\ IsSet(call.interval)

\* execute accepted the configuration.
Accepted == pc # "setup" /\ err.type # "UnknownArgumentError"

\* A wait of attempt iteration i is made in the gap before it when it is a
\* backoff wait (on_execute) and in the gap after it when it is a jitter
\* wait (except clause).
Gap(s) == IF s.kind = "backoff" THEN s.iter - 1 ELSE s.iter

\* C10 as stated: in an accepted call exactly one of the two wait
\* strategies is selected (the interval/backoff one, interval being set, or
\* the jitter one), never both and never neither, and an attempt after the
\* first has been preceded by exactly one wait per gap (a wait of zero
\* seconds, interval = 0, left aside).
C10_ExactlyOneStrategy ==
    Accepted =>
        /\ IsSet(interval) # delay_on_retry
        /\ (pc = "communicate" /\ ~(IsSet(interval) /\ ~Truthy(interval))) =>
               Len(sleeps) = iter - 1

\* C10 as amended: in an accepted call the two wait strategies are never
\* both active; neither is active exactly when delay_on_retry=False was
\* passed or, delay_on_retry not being passed, interval is 0; all waits of
\* a call are of the one active strategy, and at most one wait is made
\* between two consecutive attempts.
C10_AtMostOneStrategy ==
    Accepted =>
        /\ ~(Truthy(interval) /\ delay_on_retry)
        /\ (~Truthy(interval) /\ ~delay_on_retry) <=>
               IF IsSet(call.delay_on_retry) THEN ~call.delay_on_retry[1]
               ELSE Pop(call.interval, 1) = 0
        /\ \A i \in DOMAIN sleeps :
             /\ sleeps[i].kind = "backoff" => Truthy(interval)
             /\ sleeps[i].kind = "jitter" => delay_on_retry
             /\ Gap(sleeps[i]) \in 1..(Requested - 1)
             /\ \A j \in DOMAIN sleeps :
                  i # j => Gap(sleeps[i]) # Gap(sleeps[j])

C10_Witness ==
    /\ pc = "communicate"
    /\ iter = 3
    /\ delay_on_retry
    /\ Len(sleeps) = 2
    /\ sleeps[1].kind = "jitter"
    /\ sleeps[2].kind = "jitter"


\* The number of attempts before iteration k whose process was spawned.
SpawnedBefore(k) == Cardinality({j \in 1..(k - 1) : procs[j].st # "none"})

\* on_execute has run in iteration k
PastOnExecute(k) ==
    /\ procs[k].st # "none"
    /\ k < iter \/ (k = iter /\ pc # "on_execute")

\* C11 as stated: every backoff wait, made for attempt k >= 2, lasts
\* interval * backoff_rate^(k - 2) seconds.
C11_ExponentFromZero ==
    \A i \in DOMAIN sleeps :
        sleeps[i].kind = "backoff" =>
            /\ sleeps[i].iter >= 2
            /\ sleeps[i].secs100 =
                   100 * interval[1] * Pow(backoff_rate[1], sleeps[i].iter - 2)

\* C11 as amended: the backoff wait made for attempt k lasts
\* interval * backoff_rate^p seconds, p being the number of earlier attempts
\* of the call whose process was spawned (p = k - 1 when all of them were);
\* it is made exactly for the spawned attempts with p >= 1 (interval being
\* non-zero), so never for the first attempt.
C11_ExponentIsPreviousAttempts ==
    /\ \A i \in DOMAIN sleeps :
         sleeps[i].kind = "backoff" =>
             /\ sleeps[i].iter >= 2
             /\ SpawnedBefore(sleeps[i].iter) >= 1
             /\ sleeps[i].secs100 =
                    100 * interval[1]
                        * Pow(backoff_rate[1], SpawnedBefore(sleeps[i].iter))
    /\ \A k \in Attempts :
         (PastOnExecute(k) /\ Truthy(interval) /\ SpawnedBefore(k) >= 1) =>
             \E i \in DOMAIN sleeps :
                 sleeps[i].kind = "backoff" /\ sleeps[i].iter = k

C11_Witness ==
    /\ iter = 3
    /\ Len(sleeps) = 2
    /\ sleeps[1] = [kind |-> "backoff", secs100 |-> 200, iter |-> 2,
                    spawned |-> TRUE]
    /\ sleeps[2] = [kind |-> "backoff", secs100 |-> 400, iter |-> 3,
                    spawned |-> TRUE]


RetryTerminated == r_pc \in {"returned", "raised"}

\* every call of f so far raised an exception of a caught kind
AlwaysCaught ==
    /\ Len(r_log) >= 1
    /\ \A i \in DOMAIN r_log :
         IsSet(r_log[i].exc) /\ r_log[i].exc[1] \in r_cfg.exceptions

\* C12: with retries = n >= 1 and a work unit that raises a caught
\* exception at every call, the wrapped function calls it exactly n times,
\* waits exactly n-1 times and then raises the exception of the n-th call
\* itself, unwrapped.
C12_RetryExhausts ==
    (RetryTerminated /\ AlwaysCaught) =>
        /\ r_pc = "raised"
        /\ Len(r_log) = r_cfg.retries
        /\ Len(r_sleeps) = r_cfg.retries - 1
        /\ r_err = <<[kind |-> r_log[r_cfg.retries].exc[1],
                      call |-> r_cfg.retries]>>

C12_Witness ==
    /\ r_pc = "raised"
    /\ AlwaysCaught
    /\ r_cfg.retries = 3
    /\ Len(r_log) = 3
    /\ Len(r_sleeps) = 2
    /\ r_err = <<[kind |-> "IOError", call |-> 3]>>

\* C13: retry(...) with retries < 1 raises a configuration error (the
\* ValueError of line 271) instead of returning a decorator, and the work
\* unit is never called.
C13_RejectsRetriesBelowOne ==
    (r_cfg.retries < 1 /\ r_pc \notin {"idle", "decorate"}) =>
        /\ r_pc = "raised"
        /\ r_err = <<[kind |-> "ValueError", call |-> 0]>>
        /\ Len(r_log) = 0


\* C14: a process that has exited is never sent the signal of its watchdog,
\* whenever the timer goes off (the window between the return of
\* communicate and the cancel of on_completion included), and the only
\* OSError the caller of execute can get is that of a failed spawn.
C14_NoSignalToExitedProcess ==
    /\ \A k \in Attempts : procs[k].late = 0
    /\ (pc \in {"except", "raised"} /\ err.type = "OSError") =>
           procs[err.attempt].st = "none"

\* The process exited before its timer went off, the timer then went off
\* before on_completion cancelled it, and on_timeout has run.
C14_Witness ==
    /\ pc = "on_completion"
    /\ iter = 1
    /\ expired_late
    /\ TimerRan(1)
    /\ procs[1].signals = 0

\* C15: with the default check_exit_code, a first attempt whose process
\* exits with code 0 makes the call succeed on that attempt: one spawn,
\* the output of that process returned; and no retry wait of either kind is
\* made in the first iteration up to the evaluation of its exit code.
C15_FirstAttemptSucceeds ==
    /\ (/\ ~IsSet(call.check_exit_code)
        /\ Exited(1)
        /\ procs[1].code = <<0>>) =>
           /\ iter = 1
           /\ popens = 1
           /\ sleeps = <<>>
           /\ (Terminated => pc = "returned" /\ retval = <<Output(1)>>)
    /\ (iter = 1 /\ pc \in {"popen", "on_execute", "communicate",
                            "on_completion", "check"}) => sleeps = <<>>

C15_Witness ==
    /\ pc = "returned"
    /\ ~IsSet(call.check_exit_code)
    /\ procs[1].code = <<0>>
    /\ retval = <<Output(1)>>
    /\ popens = 1
    /\ sleeps = <<>>
    /\ Requested = 3


\* the exponents the backoff wait is examined for
AttemptNumbers == 0..MaxRetries

\* C16: the backoff wait of on_execute and of _backoff_sleep,
\* max(0, interval * backoff_rate^n), is >= 0 for every n >= 0, interval
\* >= 0 and backoff_rate >= 0, and does not decrease from n to n + 1 when
\* backoff_rate >= 1; so the waits a retry loop makes are non-negative and,
\* for backoff_rate >= 1, in non-decreasing order.
C16_BackoffWaitMonotone ==
    LET ivl  == r_cfg.interval
        rate == r_cfg.backoff_rate
    IN  /\ \A n \in AttemptNumbers :
             /\ BackoffWait(ivl, rate, n) >= 0
             /\ BackoffSleep(ivl, rate, n) >= 0
             /\ rate >= 1 =>
                  /\ BackoffWait(ivl, rate, n) <= BackoffWait(ivl, rate, n + 1)
                  /\ BackoffSleep(ivl, rate, n) <=
                         BackoffSleep(ivl, rate, n + 1)
        /\ \A i \in DOMAIN r_sleeps :
             /\ r_sleeps[i] >= 0
             /\ r_sleeps[i] = BackoffSleep(ivl, rate, i)
             /\ (rate >= 1 /\ i > 1) => r_sleeps[i - 1] <= r_sleeps[i]

\* two waits were made with a rate above 1: the second is longer
C16_Witness ==
    /\ r_cfg.backoff_rate = 2
    /\ r_cfg.interval = 1
    /\ r_sleeps = <<BackoffSleep(1, 2, 1), BackoffSleep(1, 2, 2)>>
    /\ r_sleeps[1] < r_sleeps[2]


\* C17: delay_on_retry defaults to True: in a call that does not pass
\* delay_on_retry the jitter wait is active, and every failed attempt that
\* was not the last has been followed by a jitter wait before the next
\* attempt.
C17_DelayOnRetryDefaultsTrue ==
    (Accepted /\ ~IsSet(call.delay_on_retry)) =>
        /\ delay_on_retry
        /\ \A k \in 1..(iter - 1) :
             \E i \in DOMAIN sleeps :
                 sleeps[i].kind = "jitter" /\ sleeps[i].iter = k


\* an inter-attempt wait strategy is active
WaitActive == Truthy(interval) \/ delay_on_retry

\* C18: the wait between two attempts is over before the process of the
\* later attempt is spawned: no wait is made while the process of the next
\* attempt already exists, and when the process of an attempt after the
\* first has been spawned, the wait of the gap before it has been made.
C18_WaitBeforeNextSpawn ==
    /\ \A i \in DOMAIN sleeps : ~sleeps[i].spawned
    /\ (pc = "on_execute" /\ iter >= 2 /\ WaitActive) =>
           \E i \in DOMAIN sleeps : Gap(sleeps[i]) = iter - 1

\* The spawn of attempt k has been tried and what on_execute does for it,
\* if it is called at all, is done.
SpawnTried(k) ==
    \/ k < iter
    \/ k = iter /\ pc \notin {"popen", "on_execute"}

\* C19: after an attempt that failed with a spawn error and was not the
\* last, the wait of the active strategy is made before the next spawn, as
\* long as the one made after an exit-code failure of the same attempt
\* (interval * backoff_rate^k after attempt k on the backoff path).
C19_SpawnErrorWaits ==
    \A k \in Attempts :
        (/\ k + 1 <= iter
         /\ procs[k].st = "none"
         /\ SpawnTried(k + 1)
         /\ WaitActive) =>
            \E i \in DOMAIN sleeps :
                /\ Gap(sleeps[i]) = k
                /\ sleeps[i].kind = "backoff" =>
                       sleeps[i].secs100 =
                           100 * interval[1] * Pow(backoff_rate[1], k)

BackoffKwargs ==
    {kw \in KwargsDomain :
        /\ kw.delay_on_retry = None
        /\ kw.check_exit_code = None
        /\ kw.timeout = None
        /\ kw.bogus = None}

InitBoth ==
    /\ kwargs \in BackoffKwargs
    /\ call = kwargs
    /\ pc = "setup"
    /\ interval = None
    /\ backoff_rate = None
    /\ check_exit_code = {}
    /\ ignore_exit_code = FALSE
    /\ delay_on_retry = FALSE
    /\ attempts = 0
    /\ timeout = None
    /\ shared_data = [attempt |-> 0, timer |-> None, timed_out |-> None]
    /\ watch = "None"
    /\ procs = [k \in Attempts |-> NoProc]
    /\ timers = [k \in Attempts |-> "none"]
    /\ obj = None
    /\ result = None
    /\ returncode = None
    /\ err = NoErr
    /\ retval = None
    /\ iter = 0
    /\ popens = 0
    /\ sleeps = <<>>
    /\ yields = 0
    /\ expired_late = FALSE
    /\ timer_args = [k \in Attempts |-> None]
    /\ r_cfg \in {c \in RetryConfigs :
                    /\ c.interval = Pop(kwargs.interval, DefaultInterval)
                    /\ c.backoff_rate =
                           Pop(kwargs.backoff_rate, DefaultBackoffRate)}
    /\ r_pc = "decorate"
    /\ r_attempt = 0
    /\ r_log = <<>>
    /\ r_sleeps = <<>>
    /\ r_err = None
    /\ r_ret = None

\* the steps of execute when it has no timer
NextNoTimer ==
    \/ Setup
    \/ LoopEnter
    \/ LoopExit
    \/ PopenOk
    \/ PopenFails
    \/ OnExecute
    \/ Communicate
    \/ OnCompletion
    \/ CheckFails
    \/ CheckPasses
    \/ ExceptRaise
    \/ ExceptRetry
    \/ \E k \in Attempts : ProcExit(k)

NextBoth == NextNoTimer \/ NextRetry

SpecBoth == InitBoth /\ [][NextBoth]_vars


\* every attempt before the k-th spawned its process and failed the check
\* of the exit code
EarlierAllFailedCheck(k) ==
    \A j \in 1..(k - 1) :
        Exited(j) /\ ~PolicyAccepts(procs[j].code[1])

\* milliseconds execute waited for its k-th attempt (0: no wait was made)
ExecuteWaitMs(k) ==
    IF \E i \in DOMAIN sleeps :
           sleeps[i].kind = "backoff" /\ sleeps[i].iter = k
    THEN LET i == CHOOSE i \in DOMAIN sleeps :
                      sleeps[i].kind = "backoff" /\ sleeps[i].iter = k
         IN  10 * sleeps[i].secs100
    ELSE 0

\* C21: with the same interval and backoff_rate, the wait execute makes on
\* its interval/backoff path for its k-th attempt (k >= 2, every earlier
\* attempt having spawned and failed the exit-code check) is as long as the
\* wait retry makes before its k-th invocation.
C21_SameWaits ==
    \A k \in 2..MaxAttempts :
        (/\ PastOnExecute(k)
         /\ EarlierAllFailedCheck(k)
         /\ Len(r_sleeps) >= k - 1) =>
            ExecuteWaitMs(k) = r_sleeps[k - 1]

\* both have made their waits for a third attempt: 6 s, then 18 s
C21_Witness ==
    /\ interval = <<2>>
    /\ backoff_rate = <<3>>
    /\ PastOnExecute(3)
    /\ EarlierAllFailedCheck(3)
    /\ ExecuteWaitMs(2) = 6000
    /\ ExecuteWaitMs(3) = 18000
    /\ r_sleeps = <<6000, 18000>>


\* C22: the timer armed in attempt i is bound to the process spawned by
\* attempt i and can signal no other: every attempt with timeout set gets a
\* timer of its own, whose args are its own process, no process is ever
\* signalled by the timer of another attempt, and a process that was
\* signalled was signalled by its own timer, however late a callback runs.
C22_TimerBoundToOwnProcess ==
    \A k \in Attempts :
        /\ timers[k] = "none" <=> timer_args[k] = None
        /\ timers[k] # "none" =>
               timer_args[k] = <<k>> /\ procs[k].st # "none"
        /\ (Truthy(timeout) /\ PastOnExecute(k)) => timers[k] # "none"
        /\ procs[k].foreign = 0
        /\ procs[k].signals > 0 => timers[k] = "fired"

\* the callbacks of the timers of attempts 1 and 2 are both still to run
\* while attempt 3 has spawned its process and armed its own timer
C22_Witness ==
    /\ iter = 3
    /\ pc = "communicate"
    /\ timers[1] = "firing"
    /\ timers[2] = "firing"
    /\ timers[3] = "armed"
    /\ timer_args[3] = <<3>>
    /\ procs[3].st = "running"


\* the outcome of invocation i is not an error of the catch set
NotCaughtError(i) ==
    ~IsSet(r_log[i].exc) \/ r_log[i].exc[1] \notin r_cfg.exceptions

\* C23: the wrapped function stops at the first invocation whose outcome is
\* not a caught error: that invocation is the last one, no wait follows it,
\* and the call ends with the value it returned or with the very exception
\* it raised, whatever number of retries remains.
C23_StopsAtFirstUncaught ==
    \A i \in DOMAIN r_log :
        NotCaughtError(i) =>
            /\ i = Len(r_log)
            /\ i <= r_cfg.retries
            /\ r_pc \in {"judge", "returned", "raised"}
            /\ Len(r_sleeps) = i - 1
            /\ RetryTerminated =>
                   IF IsSet(r_log[i].exc)
                   THEN /\ r_pc = "raised"
                        /\ r_err = <<[kind |-> r_log[i].exc[1], call |-> i]>>
                        /\ r_ret = None
                   ELSE /\ r_pc = "returned"
                        /\ r_ret = <<i>>
                        /\ r_err = None

\* the second invocation raised an error outside the catch set, with one
\* more try allowed: it is what the caller gets
C23_Witness ==
    /\ r_cfg.retries = 3
    /\ r_cfg.exceptions = {"IOError"}
    /\ Len(r_log) = 2
    /\ r_log[1].exc = <<"IOError">>
    /\ r_log[2].exc = <<"KeyError">>
    /\ r_pc = "raised"
    /\ r_err = <<[kind |-> "KeyError", call |-> 2]>>
    /\ Len(r_sleeps) = 1


\* StopWatch._state: never started, started, stopped
WatchStates == {"None", "STARTED", "STOPPED"}

\* C24: restart() leaves the watch STARTED from every prior state and
\* raises nothing (the stop() inside it is called on a started watch only);
\* in execute the watch is STARTED from the first restart on, so wherever
\* elapsed() is called, and the RuntimeError of a never-started watch is
\* never the error of an execution.
C24_StopWatchNeverAborts ==
    /\ \A s \in WatchStates :
         /\ Restart(s) = "STARTED"
         /\ s = "STARTED" => Stop(s) = "STOPPED"
         /\ ~ElapsedRaises(Restart(s))
    /\ watch \in WatchStates
    /\ iter >= 1 => watch = "STARTED"
    /\ pc \in {"popen", "on_execute", "communicate", "on_completion"} =>
           /\ watch = "STARTED"
           /\ ~ElapsedRaises(watch)
    /\ err.type # "RuntimeError"

\* the third attempt has called elapsed() after its wait, on a watch that
\* was restarted while started
C24_Witness ==
    /\ iter = 3
    /\ pc = "on_completion"
    /\ watch = "STARTED"
    /\ result = <<Output(3)>>
    /\ err = NoErr

====
